---- MODULE Spec2Model ----
(***************************************************************************)
(* google-watchlist-to-rss: scrape a paginated watchlist, resolve each     *)
(* title against TMDB, reconcile with the cache file, emit the feed and    *)
(* the unknowns file.  The model follows the current variant of the        *)
(* program (src/unnamed/part_000); src/index.js is the older variant with  *)
(* the same scrape, isCacheFresh, isCacheCurrent, init skeleton and        *)
(* combineWatchlists.                                                      *)
(*                                                                         *)
(* JavaScript values: a string is a sequence of one-character strings; an  *)
(* array is a sequence; null, undefined and NaN are the one-element tuples *)
(* Null, Undefined and NaN; a number that may be NaN or null is Num(n).    *)
(* The host clock is `now`, in milliseconds since the first process start. *)
(***************************************************************************)
EXTENDS Integers, Sequences, FiniteSets, TLC

VARIABLES
    now,            \* Date.now()
    overrideCache,  \* truthiness of process.env.OVERRIDE_CACHE ?? false
    watchlistFile,  \* ./_cache/watchlist.json
    rssFile,        \* ./_site/index.xml, as the list of feed item titles
    unknownsFile,   \* ./_site/unknowns.json
    pc,             \* position of the process in init()
    runs,           \* number of process starts so far
    cached, cacheFileExists, scraped, data,       \* locals of init()
    i, items, prevFirstItem, pagesSeen,           \* locals of scrape(), pages answered
    movieData, batchStart,                        \* locals of collectMovieData()
    inFlight,       \* lookups of the batch not yet answered: position -> call time
    batchResults,   \* settled promises of the batch: position -> record
    batchDoneAt,    \* Date.now() when Promise.all of the last batch resolved
    duplicates, reRunDuplicates,                  \* locals of createUnknownsFile()
    call, ret,                                    \* one fetchMovieData call and its value
    lookups,        \* fetchMovieData calls made by collectMovieData in this run
    requeries,      \* fetchMovieData calls made by createUnknownsFile in this run
    cacheWrites,    \* createWatchlistFile calls in this run
    scrapeCalls,    \* scrape() calls in this run
    stalled,        \* scrape(): a page started with prevFirstItem
    generatedFrom,  \* the scrape the cache file was last generated from
    loadedFrom,     \* generatedFrom of the cache file when this run read it
    rssWrites       \* createRssFile calls in this run

envVars     == <<now, overrideCache>>
fileVars    == <<watchlistFile, rssFile, unknownsFile>>
initVars    == <<cached, cacheFileExists, scraped, data>>
scrapeVars  == <<i, items, prevFirstItem, pagesSeen, stalled>>
flightVars  == <<inFlight, batchResults, batchDoneAt>>
collectVars == <<movieData, batchStart, inFlight, batchResults, batchDoneAt>>
unknownVars == <<duplicates, reRunDuplicates>>
callVars    == <<call, ret>>
countVars   == <<lookups, requeries, cacheWrites, scrapeCalls, generatedFrom,
                 loadedFrom, rssWrites>>
vars == <<now, overrideCache, watchlistFile, rssFile, unknownsFile, pc, runs,
          cached, cacheFileExists, scraped, data, i, items, prevFirstItem,
          pagesSeen, movieData, batchStart, inFlight, batchResults,
          batchDoneAt, duplicates, reRunDuplicates,
          call, ret, lookups, requeries, cacheWrites, scrapeCalls, stalled,
          generatedFrom, loadedFrom, rssWrites>>

----------------------------------------------------------------------------
(* JavaScript values *)

Null      == <<"null">>
Undefined == <<"undefined">>
NaN       == <<"NaN">>
Num(n)    == <<"num", n>>
IsoDate(y, m, d) == <<"iso", y, m, d>>

\* ToBoolean of a string, null, undefined, NaN or Num(n)
Truthy(v) == /\ v \notin {Null, Undefined, NaN, <<>>}
             /\ ~(Len(v) = 2 /\ v[1] = "num" /\ v[2] = 0)

\* a || b
OrElse(a, b) == IF Truthy(a) THEN a ELSE b

RECURSIVE Digits(_)
Digits(n) == LET d == <<"0", "1", "2", "3", "4", "5", "6", "7", "8", "9">>
             IN  IF n < 10 THEN <<d[n + 1]>>
                 ELSE Digits(n \div 10) \o <<d[(n % 10) + 1]>>

\* string concatenation of a number: '' + y
NumberToString(y) == IF y = NaN THEN <<"N", "a", "N">> ELSE Digits(y[2])

\* new Date(d).getFullYear(), host time zone UTC: the year of an ISO date,
\* NaN for undefined, '' and anything else Date cannot parse
getFullYear(d) == IF Len(d) = 4 /\ d[1] = "iso" THEN Num(d[2]) ELSE NaN

----------------------------------------------------------------------------
(* Strings *)

Lower(c) == IF c = "A" THEN "a" ELSE IF c = "C" THEN "c" ELSE c
WordChars  == {"a", "b", "c", "d", "A", "C", "1", "_"}       \* \w
SpaceChars == {" "}                                          \* \s
SepChars   == SpaceChars \cup {"_", "-"}                     \* [\s_-]

toLowerCase(s) == [k \in 1..Len(s) |-> Lower(s[k])]

RECURSIVE DropWhileIn(_, _)
DropWhileIn(s, C) ==
    IF s # <<>> /\ Head(s) \in C THEN DropWhileIn(Tail(s), C) ELSE s

Reverse(s) == [k \in 1..Len(s) |-> s[Len(s) + 1 - k]]
DropEndWhileIn(s, C) == Reverse(DropWhileIn(Reverse(s), C))

trim(s) == DropEndWhileIn(DropWhileIn(s, SpaceChars), SpaceChars)

\* .replace(/[^\w\s-]/g, '')
StripNonWord(s) ==
    SelectSeq(s, LAMBDA c : c \in WordChars \cup SpaceChars \cup {"-"})

\* .replace(/[\s_-]+/g, '-')
RECURSIVE CollapseSeparators(_)
CollapseSeparators(s) ==
    IF s = <<>> THEN <<>>
    ELSE IF Head(s) \in SepChars
         THEN <<"-">> \o CollapseSeparators(DropWhileIn(Tail(s), SepChars))
         ELSE <<Head(s)>> \o CollapseSeparators(Tail(s))

\* .replace(/^-+|-+$/g, '')
StripHyphens(s) == DropEndWhileIn(DropWhileIn(s, {"-"}), {"-"})

\* slugify that strips the outer hyphens before it joins the separators
slugifyStripFirst(str) ==
    CollapseSeparators(StripHyphens(StripNonWord(trim(toLowerCase(str)))))

\* the chain of slugify; each call acts on the string the one before it
\* returned
slugify(str) ==
    CHOOSE slug \in
        {StripHyphens(s4) : s4 \in
        {CollapseSeparators(s3) : s3 \in
        {StripNonWord(s2) : s2 \in
        {trim(s1) : s1 \in {toLowerCase(str)}}}}} : TRUE

\* encodeURI over the characters of the model: a space is escaped, letters,
\* digits and - _ ! ( ) are kept
RECURSIVE encodeURI(_)
encodeURI(s) ==
    IF s = <<>> THEN <<>>
    ELSE (IF Head(s) = " " THEN <<"%", "2", "0">> ELSE <<Head(s)>>)
         \o encodeURI(Tail(s))

\* JSON.stringify of an array of strings without characters to escape
RECURSIVE JoinQuoted(_)
JoinQuoted(a) ==
    IF a = <<>> THEN <<>>
    ELSE <<"\"">> \o Head(a) \o <<"\"">>
         \o (IF Len(a) > 1 THEN <<",">> ELSE <<>>) \o JoinQuoted(Tail(a))
JSONstringify(a) == <<"[">> \o JoinQuoted(a) \o <<"]">>

Slice(s, n)  == SubSeq(s, 1, IF Len(s) < n THEN Len(s) ELSE n)   \* s.slice(0, n)

RECURSIVE Flat(_)
Flat(ss) == IF ss = <<>> THEN <<>> ELSE Head(ss) \o Flat(Tail(ss))

----------------------------------------------------------------------------
(* The metadata provider (TMDB search/multi) and the resolver *)

\* One entry of json.results
Candidate(id, title, name, release, aired, type) ==
    [id |-> id, title |-> title, name |-> name, release_date |-> release,
     first_air_date |-> aired, media_type |-> type]

\* What one request to the provider comes to: fetch() rejects, the body is
\* not JSON, the JSON has no results field (an error document), or results
Rejected    == [kind |-> "rejected",  results |-> <<>>]
BadJson     == [kind |-> "badjson",   results |-> <<>>]
NoResults   == [kind |-> "noresults", results |-> <<>>]
Results(rs) == [kind |-> "results",   results |-> rs]

SearchUrl == <<"https://google.ca/search?q=">>

fallback(movie, tCall) ==
    [id |-> 0, title |-> movie, releaseDate |-> Null, releaseYear |-> Null,
     mediaType |-> Null, dateAdded |-> tCall,
     googleSearchUrl |-> SearchUrl \o encodeURI(movie)]

\* .then(results => ...) of fetchMovieData for a selected candidate
resolved(result, tResp) ==
    LET title       == OrElse(result.title, result.name)
        releaseDate == OrElse(result.release_date, result.first_air_date)
        year        == getFullYear(releaseDate)
    IN  [id |-> result.id, title |-> title, releaseDate |-> releaseDate,
         releaseYear |-> year, mediaType |-> result.media_type,
         dateAdded |-> tResp,
         googleSearchUrl |->
             SearchUrl \o encodeURI(title \o <<" ", "(">>
                                    \o NumberToString(year) \o <<")">>)]

\* fetchMovieData that takes results[0] whatever the rank asked for
fetchMovieDataFirstResult(movie, resultIndex, response, tCall, tResp) ==
    IF response.kind # "results" THEN fallback(movie, tCall)
    ELSE IF Len(response.results) = 0 THEN fallback(movie, tCall)
    ELSE resolved(response.results[1], tResp)

\* fetchMovieData(movie, resultIndex) called at tCall and answered at tResp
\* with response: every rejection of the promise chain ends in .catch
fetchMovieData(movie, resultIndex, response, tCall, tResp) ==
    IF response.kind # "results" THEN fallback(movie, tCall)         \* .catch
    ELSE IF Len(response.results) = 0 THEN fallback(movie, tCall)
    ELSE IF resultIndex + 1 <= Len(response.results)
         THEN resolved(response.results[resultIndex + 1], tResp)
         ELSE fallback(movie, tCall)

\* JSON.parse(JSON.stringify(record)): NaN is written as null; a field that
\* is undefined is left out and reads as undefined again
JSONrecord(r) == [r EXCEPT !.releaseYear = IF @ = NaN THEN Null ELSE @]
JSONrecords(movies) == [k \in 1..Len(movies) |-> JSONrecord(movies[k])]

----------------------------------------------------------------------------
(* scrape() *)

LastPage == 5       \* for (let i = 0; i <= 5; i++)

\* What one page request comes to: the request or the DOM parse fails, or
\* the page carries the aria-labels of its entries, in document order
PageFail    == [ok |-> FALSE, labels |-> <<>>]
Page(ls)    == [ok |-> TRUE,  labels |-> ls]

\* arr[0]
First(arr) == IF arr = <<>> THEN Undefined ELSE arr[1]

\* the labels the for..of loop passes before it meets prev
RECURSIVE Before(_, _)
Before(labels, prev) ==
    IF labels = <<>> \/ Head(labels) = prev THEN <<>>
    ELSE <<Head(labels)>> \o Before(Tail(labels), prev)

\* One iteration of the page loop on the locals st = [i, items,
\* prevFirstItem].  items.push([]) appends a slot; items[i] is the slot of
\* this page only while no earlier page has failed, otherwise items[i] is
\* undefined and the first use of it throws into .catch.
ScrapePage(st, resp) ==
    LET pushed  == Append(st.items, <<>>)
        slot    == st.i + 1
        hasSlot == slot <= Len(pushed)
        taken   == Before(resp.labels, st.prevFirstItem)
        filled  == [pushed EXCEPT ![slot] = @ \o taken]
    IN  IF ~resp.ok
        THEN [st EXCEPT !.i = @ + 1]                                 \* .catch
        ELSE IF ~hasSlot
        THEN [st EXCEPT !.i = @ + 1, !.items = pushed]     \* return or .catch
        ELSE IF Len(taken) < Len(resp.labels)
        THEN [st EXCEPT !.i = @ + 1, !.items = filled]     \* return in loop
        ELSE IF First(filled[slot]) = st.prevFirstItem
        THEN [st EXCEPT !.i = @ + 1, !.items = filled]     \* return, line 62
        ELSE [i |-> st.i + 1, items |-> filled,
              prevFirstItem |-> First(filled[slot])]

\* items.filter(arr => arr.length).flat(Infinity)
ScrapeResult(its) == Flat(SelectSeq(its, LAMBDA arr : Len(arr) > 0))

ScrapeStart == [i |-> 0, items |-> <<>>, prevFirstItem |-> Null]

\* scrape() when page k answers pages[k + 1]
RECURSIVE ScrapeFrom(_, _)
ScrapeFrom(st, pages) ==
    IF st.i > LastPage THEN ScrapeResult(st.items)
    ELSE ScrapeFrom(ScrapePage(st, pages[st.i + 1]), pages)
scrape(pages) == ScrapeFrom(ScrapeStart, pages)

----------------------------------------------------------------------------
(* The cache reconciler *)

HOUR      == 3600000    \* 1000 * 60 * 60
FirstTen  == 10         \* slice(0, 10)
BatchSize == 5          \* i += 5, slice(i, i + 5)
BatchWait == 500        \* setTimeout(resolve, 500)

\* isCacheFresh that always answers stale
isCacheFreshNever(date, t, override) == FALSE

isCacheFresh(date, t, override) ==
    LET anHourAgo == t - HOUR
        fresh     == date > anHourAgo
    IN  IF override THEN FALSE ELSE fresh

Titles(movies) == [k \in 1..Len(movies) |-> movies[k].title]  \* map(i => i.title)
Slugs(titles)  == [k \in 1..Len(titles) |-> slugify(titles[k])]

\* isCacheCurrent that compares the whole lists
isCacheCurrentWhole(cachedData, scrapedTitles, override) ==
    LET cachedAll  == JSONstringify(Slugs(Titles(cachedData)))
        scrapedAll == JSONstringify(Slugs(scrapedTitles))
    IN  IF override THEN FALSE ELSE cachedAll = scrapedAll

isCacheCurrent(cachedData, scrapedTitles, override) ==
    LET cachedFirstTen  ==
            JSONstringify(Slugs(Titles(Slice(cachedData, FirstTen))))
        scrapedFirstTen ==
            JSONstringify(Slugs(Slice(scrapedTitles, FirstTen)))
        fresh == cachedFirstTen = scrapedFirstTen
    IN  IF override THEN FALSE ELSE fresh

Max(S) == CHOOSE x \in S : \A y \in S : y <= x

\* cachedMap of collectMovieData: the reduce keeps, for a key, the last
\* movie of cachedData whose slugified title is the key
SlugIndexes(cachedData, key) ==
    {k \in 1..Len(cachedData) : slugify(cachedData[k].title) = key}
InCachedMap(cachedData, key) == SlugIndexes(cachedData, key) # {}
cachedMap(cachedData, key)   == cachedData[Max(SlugIndexes(cachedData, key))]

\* One promise of batchPromises: the cached movie, or a provider lookup
\* issued at tCall and answered after answer.ms with answer.response
\* collectMovieData of src/index.js: every title is looked up
SkippedNever(movieTitle, cachedData, override) == FALSE

Skipped(movieTitle, cachedData, override) ==
    InCachedMap(cachedData, slugify(movieTitle)) /\ ~override
BatchPromise(movieTitle, cachedData, override, answer, tCall) ==
    IF Skipped(movieTitle, cachedData, override)
    THEN cachedMap(cachedData, slugify(movieTitle))
    ELSE fetchMovieData(movieTitle, 0, answer.response, tCall, tCall + answer.ms)

\* a batch that takes every title that is left
BatchAll(movies, from) == SubSeq(movies, from + 1, Len(movies))

\* movies.slice(i, i + 5)
Batch(movies, from) ==
    SubSeq(movies, from + 1,
           IF Len(movies) < from + BatchSize THEN Len(movies) ELSE from + BatchSize)

\* cachedById of combineWatchlists: the last movie of cachedData with the id
IdIndexes(cachedData, id) == {k \in 1..Len(cachedData) : cachedData[k].id = id}
InCachedById(cachedData, id) == IdIndexes(cachedData, id) # {}
cachedById(cachedData, id)   == cachedData[Max(IdIndexes(cachedData, id))]

\* combineWatchlists that does not restore dateAdded
combineWatchlistsKeepNew(newData, cachedData) == newData

combineWatchlists(newData, cachedData) ==
    [k \in 1..Len(newData) |->
        IF InCachedById(cachedData, newData[k].id)
        THEN [newData[k] EXCEPT
                 !.dateAdded = cachedById(cachedData, newData[k].id).dateAdded]
        ELSE newData[k]]

----------------------------------------------------------------------------
(* Artifacts *)

\* The content of ./_cache/watchlist.json by what JSON.parse makes of it:
\* no file, an empty file, text that is not JSON, JSON that is null, a
\* number or an array, or an object with or without its two keys
File(kind, hasGenerated, hasData, generated, records) ==
    [kind |-> kind, hasGenerated |-> hasGenerated, hasData |-> hasData,
     generated |-> generated, data |-> records]
Absent == File("absent", FALSE, FALSE, 0, <<>>)
Malformed(kind) == File(kind, FALSE, FALSE, 0, <<>>)
EmptyObject == File("object", FALSE, FALSE, 0, <<>>)

\* JSON.stringify({generated: Date.now(), data: data}), as read back
createWatchlistFile(movies, t) ==
    File("object", TRUE, TRUE, t, JSONrecords(movies))

\* createRssFile that never adds the year
FeedTitleBare(movie) == movie.title

\* title of one feed item of createRssFile
FeedTitle(movie) ==
    movie.title \o (IF Truthy(movie.releaseYear)
                    THEN <<" ", "(">> \o NumberToString(movie.releaseYear) \o <<")">>
                    ELSE <<>>)
createRssFile(movies) ==
    [k \in 1..Len(movies) |->
        [title |-> FeedTitle(movies[k]), id |-> FeedTitle(movies[k])]]

\* createUnknownsFile: the items beyond the first occurrence of their key
IsPerson(item)    == item.mediaType = <<"person">>
IsUnmatched(item) == item.id = 0
DuplicateIndexes(movies) ==
    {k \in 1..Len(movies) :
        \E j \in 1..(k - 1) : slugify(movies[j].title) = slugify(movies[k].title)}
RECURSIVE Pick(_, _, _)
Pick(movies, idx, k) ==
    IF k > Len(movies) THEN <<>>
    ELSE (IF k \in idx THEN <<movies[k]>> ELSE <<>>) \o Pick(movies, idx, k + 1)
Duplicates(movies) == Pick(movies, DuplicateIndexes(movies), 1)

\* the entry kept for dup when the rank 1 lookup returned fixed
ReRun(dup, fixed) == IF fixed.id # dup.id THEN fixed ELSE dup

----------------------------------------------------------------------------
(* The environment: watchlist pages, provider answers, process starts *)

MaxRuns == 2        \* process starts in a behaviour of Spec

TitleA == <<"A">>       \* raw titles on the watchlist
TitleC == <<"c">>
Movie1  == Candidate(1, <<"a">>, Undefined, IsoDate(2010, 7, 16), Undefined,
                     <<"movie">>)
Show2   == Candidate(2, Undefined, <<"b">>, <<>>, IsoDate(2014, 4, 6), <<"tv">>)
Person3 == Candidate(3, Undefined, <<"a">>, Undefined, Undefined, <<"person">>)

\* provider answers during a run: the response and the milliseconds it takes
Responses == {Rejected, Results(<<>>), Results(<<Movie1>>),
              Results(<<Movie1, Show2>>), Results(<<Person3, Movie1>>)}
Answers   == [response : Responses, ms : {0, 1}]

\* watchlist pages during a run: two pages of at most one entry, then
\* empty pages
PageResponses == {PageFail, Page(<<>>), Page(<<TitleA>>), Page(<<TitleC>>)}
Pages == {<<p, q, Page(<<>>), Page(<<>>), Page(<<>>), Page(<<>>)>> :
             p \in PageResponses, q \in PageResponses}

\* time between the end of a run and the next process start
Gaps == {1, HOUR}

Largest(S) == IF S = {} THEN 0 ELSE Max(S)

----------------------------------------------------------------------------
(* init(): one process run *)

\* no promise of the batch yet
NoneSettled == [k \in {} |-> 0]

Locals ==
    /\ cached = EmptyObject /\ cacheFileExists = FALSE
    /\ scraped = <<>> /\ data = <<>>
    /\ i = 0 /\ items = <<>> /\ prevFirstItem = Null /\ pagesSeen = <<>>
    /\ stalled = FALSE
    /\ movieData = <<>> /\ batchStart = 0
    /\ inFlight = NoneSettled /\ batchResults = NoneSettled /\ batchDoneAt = 0
    /\ duplicates = <<>> /\ reRunDuplicates = <<>>
    /\ call = <<>> /\ ret = <<>>
    /\ lookups = 0 /\ requeries = 0 /\ cacheWrites = 0 /\ scrapeCalls = 0
    /\ loadedFrom = <<>> /\ rssWrites = 0

\* the scheduled build starts the process, with the cache directory of the
\* last build and an empty site directory
StartRun ==
    /\ pc \in {"idle", "done", "crashed"}
    /\ runs < MaxRuns
    /\ runs' = runs + 1
    /\ \E gap \in (IF pc = "idle" THEN {0} ELSE Gaps) : now' = now + gap
    /\ overrideCache' \in BOOLEAN
    /\ pc' = "load"
    /\ cached' = EmptyObject /\ cacheFileExists' = FALSE
    /\ scraped' = <<>> /\ data' = <<>>
    /\ movieData' = <<>> /\ batchStart' = 0
    /\ inFlight' = NoneSettled /\ batchResults' = NoneSettled
    /\ batchDoneAt' = 0
    /\ duplicates' = <<>> /\ reRunDuplicates' = <<>>
    /\ call' = <<>> /\ ret' = <<>>
    /\ lookups' = 0 /\ requeries' = 0 /\ cacheWrites' = 0 /\ scrapeCalls' = 0
    /\ loadedFrom' = <<>> /\ rssWrites' = 0
    /\ rssFile' = <<>> /\ unknownsFile' = [generated |-> 0, data |-> <<>>]
    /\ UNCHANGED <<watchlistFile, scrapeVars, generatedFrom>>

\* JSON.parse throws on text that is not JSON; the in operator throws on a
\* value that is not an object.  Nothing catches either: the run ends there.
LoadThrows(file) == file.kind \in {"invalid", "null", "number"}

Load ==
    /\ pc = "load"
    /\ IF watchlistFile.kind = "absent"
       THEN /\ pc' = "decide"
            /\ UNCHANGED <<cached, cacheFileExists>>
       ELSE IF LoadThrows(watchlistFile)
       THEN /\ pc' = "crashed"
            /\ UNCHANGED <<cached, cacheFileExists>>
       ELSE /\ cached' = IF watchlistFile.kind = "empty" THEN EmptyObject
                         ELSE watchlistFile
            /\ cacheFileExists' = (/\ watchlistFile.kind = "object"
                                   /\ watchlistFile.hasGenerated
                                   /\ watchlistFile.hasData)
            /\ pc' = "decide"
    /\ loadedFrom' = generatedFrom
    /\ UNCHANGED <<envVars, fileVars, runs, scraped, data, scrapeVars,
                   collectVars, unknownVars, callVars, lookups, requeries,
                   cacheWrites, scrapeCalls, generatedFrom, rssWrites>>

\* else branch of init: no cache, scrape and resolve everything
StartFresh ==
    /\ pc = "decide" /\ ~cacheFileExists
    /\ \E pages \in Pages : scraped' = scrape(pages)
    /\ scrapeCalls' = scrapeCalls + 1
    /\ movieData' = <<>> /\ batchStart' = 0
    /\ pc' = "collect"
    /\ UNCHANGED <<envVars, fileVars, runs, cached, cacheFileExists, data,
                   scrapeVars, flightVars, unknownVars, callVars, lookups,
                   requeries, cacheWrites, generatedFrom, loadedFrom, rssWrites>>

\* scraped = !isCacheFresh(cached.generated) ? await scrape() : scraped
KeepFresh ==
    /\ pc = "decide" /\ cacheFileExists
    /\ isCacheFresh(cached.generated, now, overrideCache)
    /\ pc' = "current"
    /\ UNCHANGED <<envVars, fileVars, runs, initVars, scrapeVars, collectVars,
                   unknownVars, callVars, countVars>>

Rescrape ==
    /\ pc = "decide" /\ cacheFileExists
    /\ ~isCacheFresh(cached.generated, now, overrideCache)
    /\ \E pages \in Pages : scraped' = scrape(pages)
    /\ scrapeCalls' = scrapeCalls + 1
    /\ pc' = "current"
    /\ UNCHANGED <<envVars, fileVars, runs, cached, cacheFileExists, data,
                   scrapeVars, collectVars, unknownVars, callVars, lookups,
                   requeries, cacheWrites, generatedFrom, loadedFrom, rssWrites>>

\* an init that treats a cache without records as no cache: the scraped
\* titles are resolved
EmptyCacheRegenerates ==
    /\ pc = "current" /\ Len(cached.data) = 0
    /\ movieData' = <<>> /\ batchStart' = 0
    /\ pc' = IF Len(scraped) > 0 THEN "collect" ELSE "rss"
    /\ UNCHANGED <<envVars, fileVars, runs, cached, cacheFileExists, scraped,
                   data, scrapeVars, flightVars, unknownVars, callVars,
                   countVars>>

\* if (cached.data.length) is false: data stays []
EmptyCache ==
    /\ pc = "current" /\ Len(cached.data) = 0
    /\ pc' = "rss"
    /\ UNCHANGED <<envVars, fileVars, runs, initVars, scrapeVars, collectVars,
                   unknownVars, callVars, countVars>>

MustUpdate ==
    /\ Len(scraped) > 0
    /\ ~isCacheCurrent(cached.data, scraped, overrideCache)

UseCache ==
    /\ pc = "current" /\ Len(cached.data) > 0 /\ ~MustUpdate
    /\ data' = cached.data
    /\ pc' = "rss"
    /\ UNCHANGED <<envVars, fileVars, runs, cached, cacheFileExists, scraped,
                   scrapeVars, collectVars, unknownVars, callVars, countVars>>

UpdateCache ==
    /\ pc = "current" /\ Len(cached.data) > 0 /\ MustUpdate
    /\ data' = cached.data
    /\ movieData' = <<>> /\ batchStart' = 0
    /\ pc' = "collect"
    /\ UNCHANGED <<envVars, fileVars, runs, cached, cacheFileExists, scraped,
                   scrapeVars, flightVars, unknownVars, callVars, countVars>>

\* cachedData of collectMovieData: cached.data, or the default []
CachedData == IF cacheFileExists THEN cached.data ELSE <<>>

\* one iteration of the batch loop of collectMovieData
CollectBatch ==
    /\ pc = "collect" /\ batchStart < Len(scraped)
    /\ LET batch   == Batch(scraped, batchStart)
           fetched == {k \in 1..Len(batch) :
                          ~Skipped(batch[k], CachedData, overrideCache)}
       IN  \E answers \in [1..Len(batch) -> Answers] :
             /\ movieData' = movieData \o
                    [k \in 1..Len(batch) |->
                        BatchPromise(batch[k], CachedData, overrideCache,
                                     answers[k], now)]
             /\ lookups' = lookups + Cardinality(fetched)
             /\ now' = now + Largest({answers[k].ms : k \in fetched}) + BatchWait
    /\ batchStart' = batchStart + BatchSize
    /\ UNCHANGED <<overrideCache, fileVars, pc, runs, initVars, scrapeVars,
                   flightVars, unknownVars, callVars, requeries, cacheWrites,
                   scrapeCalls, generatedFrom, loadedFrom, rssWrites>>

\* collectMovieData that returns before its loop has ended
CollectReturnEarly ==
    /\ pc = "collect"
    /\ data' = movieData
    /\ pc' = IF cacheFileExists THEN "combine" ELSE "write"
    /\ UNCHANGED <<envVars, fileVars, runs, cached, cacheFileExists, scraped,
                   scrapeVars, collectVars, unknownVars, callVars, countVars>>

\* data = await collectMovieData(...)
CollectReturn ==
    /\ pc = "collect" /\ batchStart >= Len(scraped)
    /\ data' = movieData
    /\ pc' = IF cacheFileExists THEN "combine" ELSE "write"
    /\ UNCHANGED <<envVars, fileVars, runs, cached, cacheFileExists, scraped,
                   scrapeVars, collectVars, unknownVars, callVars, countVars>>

\* data = combineWatchlists(data, cached.data)
Combine ==
    /\ pc = "combine"
    /\ data' = combineWatchlists(data, cached.data)
    /\ pc' = "write"
    /\ UNCHANGED <<envVars, fileVars, runs, cached, cacheFileExists, scraped,
                   scrapeVars, collectVars, unknownVars, callVars, countVars>>

WriteCache ==
    /\ pc = "write"
    /\ watchlistFile' = createWatchlistFile(data, now)
    /\ cacheWrites' = cacheWrites + 1
    /\ generatedFrom' = <<scraped>>
    /\ pc' = "rss"
    /\ UNCHANGED <<envVars, rssFile, unknownsFile, runs, initVars, scrapeVars,
                   collectVars, unknownVars, callVars, lookups, requeries,
                   scrapeCalls, loadedFrom, rssWrites>>

WriteRss ==
    /\ pc = "rss"
    /\ rssFile' = createRssFile(data)
    /\ rssWrites' = rssWrites + 1
    /\ pc' = "unknowns"
    /\ UNCHANGED <<envVars, watchlistFile, unknownsFile, runs, initVars,
                   scrapeVars, collectVars, unknownVars, callVars, lookups,
                   requeries, cacheWrites, scrapeCalls, generatedFrom,
                   loadedFrom>>

\* createUnknownsFile up to its loop
FindDuplicates ==
    /\ pc = "unknowns"
    /\ duplicates' = Duplicates(data)
    /\ reRunDuplicates' = <<>>
    /\ pc' = "requery"
    /\ UNCHANGED <<envVars, fileVars, runs, initVars, scrapeVars, collectVars,
                   callVars, countVars>>

\* one iteration of for (const dup of duplicates)
ReQuery ==
    /\ pc = "requery" /\ Len(reRunDuplicates) < Len(duplicates)
    /\ LET dup == duplicates[Len(reRunDuplicates) + 1]
       IN  \E response \in Responses :
             LET fixed == fetchMovieData(dup.title, 1, response, now, now)
             IN  /\ reRunDuplicates' = Append(reRunDuplicates, ReRun(dup, fixed))
                 /\ call' = <<[movie |-> dup.title, resultIndex |-> 1,
                               response |-> response, ms |-> 0]>>
                 /\ ret' = <<fixed>>
    /\ requeries' = requeries + 1
    /\ UNCHANGED <<envVars, fileVars, pc, runs, initVars, scrapeVars,
                   collectVars, duplicates, lookups, cacheWrites, scrapeCalls,
                   generatedFrom, loadedFrom, rssWrites>>

\* createUnknownsFile of src/index.js: the duplicates come first
WriteUnknownsDuplicatesFirst ==
    /\ pc = "requery" /\ Len(reRunDuplicates) = Len(duplicates)
    /\ unknownsFile' =
           [generated |-> now,
            data |-> JSONrecords(reRunDuplicates
                                 \o SelectSeq(data, IsPerson)
                                 \o SelectSeq(data, IsUnmatched))]
    /\ pc' = "done"
    /\ UNCHANGED <<envVars, watchlistFile, rssFile, runs, initVars, scrapeVars,
                   collectVars, unknownVars, callVars, countVars>>

WriteUnknowns ==
    /\ pc = "requery" /\ Len(reRunDuplicates) = Len(duplicates)
    /\ unknownsFile' =
           [generated |-> now,
            data |-> JSONrecords(SelectSeq(data, IsPerson)
                                 \o SelectSeq(data, IsUnmatched)
                                 \o reRunDuplicates)]
    /\ pc' = "done"
    /\ UNCHANGED <<envVars, watchlistFile, rssFile, runs, initVars, scrapeVars,
                   collectVars, unknownVars, callVars, countVars>>

Run == \/ Load \/ StartFresh \/ KeepFresh \/ Rescrape \/ EmptyCache
       \/ UseCache \/ UpdateCache \/ CollectBatch \/ CollectReturn
       \/ Combine \/ WriteCache \/ WriteRss \/ FindDuplicates \/ ReQuery
       \/ WriteUnknowns

NoFiles == /\ watchlistFile = Absent /\ rssFile = <<>>
           /\ unknownsFile = [generated |-> 0, data |-> <<>>]

\* Any number of runs, from a machine without a cache file
Init ==
    /\ now = 0 /\ overrideCache = FALSE
    /\ NoFiles
    /\ pc = "idle" /\ runs = 0
    /\ Locals
    /\ generatedFrom = <<>>

Next == StartRun \/ Run

Spec == Init /\ [][Next]_vars

----------------------------------------------------------------------------
(* One run, from any cache file the process can find *)

MaxCached == 2      \* records in the cache file a run starts with

\* records as the cache file holds them
CacheRecords ==
    {JSONrecord(r) : r \in {fallback(TitleC, 0), resolved(Movie1, 0),
                            resolved(Movie1, 1), resolved(Person3, 1)}}
CacheLists == UNION {[1..n -> CacheRecords] : n \in 0..MaxCached}

ValidCaches == {File("object", TRUE, TRUE, 2, records) : records \in CacheLists}
MalformedFiles ==
    {Malformed(kind) : kind \in {"empty", "invalid", "null", "number", "array"}}
    \cup {EmptyObject, File("object", TRUE, FALSE, 2, <<>>),
          File("object", FALSE, TRUE, 0, <<>>)}

InitOneRun ==
    /\ watchlistFile \in {Absent} \cup MalformedFiles \cup ValidCaches
    /\ rssFile = <<>> /\ unknownsFile = [generated |-> 0, data |-> <<>>]
    /\ now \in {3, 2 + HOUR - 1, 2 + HOUR}
    /\ overrideCache \in BOOLEAN
    /\ pc = "load" /\ runs = 1
    /\ Locals
    /\ generatedFrom = <<>>

SpecOneRun == InitOneRun /\ [][Run]_vars

----------------------------------------------------------------------------
(* scrape(), page by page *)

TitleB == <<"b">>
TitleD == <<"d">>
ScrapeResponses ==
    {PageFail, Page(<<>>), Page(<<TitleA, TitleB, TitleC>>),
     Page(<<TitleA, TitleB, TitleC, TitleD>>), Page(<<TitleD>>),
     Page(<<TitleD, TitleA>>)}

\* a page that starts with the first entry kept from an earlier page
Stalls(resp, prev) ==
    resp.ok /\ resp.labels # <<>> /\ resp.labels[1] = prev

\* one iteration of for (let i = 0; i <= 5; i++)
FetchPage ==
    /\ pc = "scrape" /\ i <= LastPage
    /\ \E resp \in ScrapeResponses :
         LET st == ScrapePage([i |-> i, items |-> items,
                               prevFirstItem |-> prevFirstItem], resp)
         IN  /\ i' = st.i
             /\ items' = st.items
             /\ prevFirstItem' = st.prevFirstItem
             /\ pagesSeen' = Append(pagesSeen, resp)
             /\ stalled' = (stalled \/ Stalls(resp, prevFirstItem))
    /\ UNCHANGED <<envVars, fileVars, pc, runs, initVars, collectVars,
                   unknownVars, callVars, countVars>>

ScrapeReturn ==
    /\ pc = "scrape" /\ i > LastPage
    /\ scraped' = ScrapeResult(items)
    /\ pc' = "scraped"
    /\ UNCHANGED <<envVars, fileVars, runs, cached, cacheFileExists, data,
                   scrapeVars, collectVars, unknownVars, callVars, countVars>>

InitScrape ==
    /\ now = 0 /\ overrideCache = FALSE
    /\ NoFiles
    /\ pc = "scrape" /\ runs = 1
    /\ Locals
    /\ generatedFrom = <<>>

SpecScrape == InitScrape /\ [][FetchPage \/ ScrapeReturn]_vars

----------------------------------------------------------------------------
(* fetchMovieData, one call *)

Calls ==
    [movie : {TitleA, TitleC, <<"A", " ", "c">>}, resultIndex : {0, 1},
     response : Responses \cup {BadJson, NoResults, Results(<<Show2>>),
                                Results(<<Person3>>), Results(<<Show2, Movie1>>)},
     ms : {1}]

Resolve ==
    /\ pc = "call"
    /\ ret' = <<fetchMovieData(call[1].movie, call[1].resultIndex,
                               call[1].response, now, now + call[1].ms)>>
    /\ pc' = "returned"
    /\ UNCHANGED <<envVars, fileVars, runs, initVars, scrapeVars, collectVars,
                   unknownVars, call, countVars>>

InitResolve ==
    /\ now = 0 /\ overrideCache = FALSE
    /\ NoFiles
    /\ pc = "call" /\ runs = 1
    /\ cached = EmptyObject /\ cacheFileExists = FALSE
    /\ scraped = <<>> /\ data = <<>>
    /\ i = 0 /\ items = <<>> /\ prevFirstItem = Null /\ pagesSeen = <<>>
    /\ stalled = FALSE
    /\ movieData = <<>> /\ batchStart = 0
    /\ inFlight = NoneSettled /\ batchResults = NoneSettled /\ batchDoneAt = 0
    /\ duplicates = <<>> /\ reRunDuplicates = <<>>
    /\ call \in {<<c>> : c \in Calls} /\ ret = <<>>
    /\ lookups = 0 /\ requeries = 0 /\ cacheWrites = 0 /\ scrapeCalls = 0
    /\ loadedFrom = <<>> /\ rssWrites = 0
    /\ generatedFrom = <<>>

SpecResolve == InitResolve /\ [][Resolve]_vars

----------------------------------------------------------------------------
(* collectMovieData, lookup by lookup *)

MaxTitles == 6      \* titles in the scraped list

Title1   == <<"1">>
TitleAC  == <<"A", " ", "c">>
Title_1  == <<"_", "1">>
Watchlist == <<TitleA, TitleB, TitleC, Title1, TitleAC, TitleD, Title_1>>
CollectLists == {SubSeq(Watchlist, 1, n) : n \in 0..MaxTitles}

\* the cache the run has loaded
CollectCaches ==
    {File("object", TRUE, TRUE, 2, records) :
        records \in {<<>>,
                     <<JSONrecord(resolved(Movie1, 0))>>,
                     <<JSONrecord(fallback(TitleD, 1))>>,
                     <<JSONrecord(fallback(TitleC, 0)),
                       JSONrecord(resolved(Movie1, 1))>>}}

\* the provider's answer to a lookup: a failure, or the one candidate it
\* has for the query, whose id tells the queries apart
TitleId(movie) == CHOOSE k \in 1..Len(Watchlist) : Watchlist[k] = movie
Hit(movie) ==
    Candidate(TitleId(movie), toLowerCase(movie), Undefined,
              IsoDate(2010, 7, 16), Undefined, <<"movie">>)
CollectResponses(movie) == {Rejected, Results(<<Hit(movie)>>)}

\* the promises settled in the order of arrival: v takes the first place
\* that is free
SettleInArrivalOrder(f, k, v) ==
    LET m == CHOOSE x \in 1..BatchSize :
                 x \notin DOMAIN f /\ \A y \in 1..(x - 1) : y \in DOMAIN f
    IN  [x \in DOMAIN f \cup {m} |-> IF x = m THEN v ELSE f[x]]

\* Promise.all: f with v at the place k of its promise
Settle(f, k, v) == [x \in DOMAIN f \cup {k} |-> IF x = k THEN v ELSE f[x]]

\* batch.map(...): every promise of the batch is created in one go, the
\* cached ones settled, the others as lookups sent to the provider
IssueBatch ==
    /\ pc = "collect" /\ batchStart < Len(scraped)
    /\ LET batch   == Batch(scraped, batchStart)
           skipped == {k \in 1..Len(batch) :
                          Skipped(batch[k], CachedData, overrideCache)}
       IN  /\ batchResults' =
                 [k \in skipped |-> cachedMap(CachedData, slugify(batch[k]))]
           /\ inFlight' = [k \in (1..Len(batch)) \ skipped |-> now]
           /\ lookups' = lookups + Len(batch) - Cardinality(skipped)
    /\ pc' = "await"
    /\ UNCHANGED <<envVars, fileVars, runs, initVars, scrapeVars, movieData,
                   batchStart, batchDoneAt, unknownVars, callVars, requeries,
                   cacheWrites, scrapeCalls, generatedFrom, loadedFrom, rssWrites>>

\* the provider answers one lookup, in any order
Answer ==
    /\ pc = "await"
    /\ \E k \in DOMAIN inFlight :
         \E response \in CollectResponses(Batch(scraped, batchStart)[k]) :
         /\ batchResults' =
               Settle(batchResults, k,
                      fetchMovieData(Batch(scraped, batchStart)[k], 0,
                                     response, inFlight[k], now + 1))
         /\ inFlight' = [x \in DOMAIN inFlight \ {k} |-> inFlight[x]]
    /\ now' = now + 1
    /\ UNCHANGED <<overrideCache, fileVars, pc, runs, initVars, scrapeVars,
                   movieData, batchStart, batchDoneAt, unknownVars, callVars,
                   countVars>>

\* await Promise.all(batchPromises); movieData.push(...)
BatchDone ==
    /\ pc = "await" /\ DOMAIN inFlight = {}
    /\ movieData' = movieData \o
           [k \in 1..Len(Batch(scraped, batchStart)) |-> batchResults[k]]
    /\ batchResults' = NoneSettled
    /\ batchDoneAt' = now
    /\ pc' = "pause"
    /\ UNCHANGED <<envVars, fileVars, runs, initVars, scrapeVars, batchStart,
                   inFlight, unknownVars, callVars, countVars>>

\* await new Promise(resolve => setTimeout(resolve, 500)); i += 5
Pause ==
    /\ pc = "pause"
    /\ now' = now + BatchWait
    /\ batchStart' = batchStart + BatchSize
    /\ pc' = "collect"
    /\ UNCHANGED <<overrideCache, fileVars, runs, initVars, scrapeVars,
                   movieData, flightVars, unknownVars, callVars, countVars>>

\* init() after the load and the scrape: at the entry of collectMovieData
\* when there is no cache, at if (cached.data.length) when there is one;
\* scraped is [] when the cache was fresh
InitCollect ==
    /\ now \in {3, 2 + HOUR} /\ overrideCache \in BOOLEAN
    /\ watchlistFile \in {Absent} \cup CollectCaches
    /\ rssFile = <<>> /\ unknownsFile = [generated |-> 0, data |-> <<>>]
    /\ runs = 1
    /\ cacheFileExists = (watchlistFile # Absent)
    /\ cached = (IF watchlistFile = Absent THEN EmptyObject ELSE watchlistFile)
    /\ pc = (IF cacheFileExists THEN "current" ELSE "collect")
    /\ IF cacheFileExists /\ isCacheFresh(cached.generated, now, overrideCache)
       THEN scraped = <<>> /\ scrapeCalls = 0
       ELSE scraped \in CollectLists /\ scrapeCalls = 1
    /\ data = <<>>
    /\ i = 0 /\ items = <<>> /\ prevFirstItem = Null /\ pagesSeen = <<>>
    /\ stalled = FALSE
    /\ movieData = <<>> /\ batchStart = 0
    /\ inFlight = NoneSettled /\ batchResults = NoneSettled /\ batchDoneAt = 0
    /\ duplicates = <<>> /\ reRunDuplicates = <<>>
    /\ call = <<>> /\ ret = <<>>
    /\ lookups = 0 /\ requeries = 0 /\ cacheWrites = 0
    /\ loadedFrom = <<>> /\ rssWrites = 0
    /\ generatedFrom = <<>>

NextCollect == \/ EmptyCache \/ UseCache \/ UpdateCache
               \/ IssueBatch \/ Answer \/ BatchDone \/ Pause
               \/ CollectReturn \/ Combine \/ WriteCache \/ WriteRss

SpecCollect == InitCollect /\ [][NextCollect]_vars

----------------------------------------------------------------------------
(* The currency check of init(), on lists longer than ten *)

MaxListed == 11     \* titles in the cache and in the scrape

ListLengths == {0, 1} \cup ((MaxListed - 2)..MaxListed)

\* a list of n titles, all `other` but the k-th, which is `one` (none for
\* k = 0)
OneAmong(n, k, one, other) == [x \in 1..n |-> IF x = k THEN one ELSE other]

\* scraped lists hold raw titles, cached lists the records of canonical titles
ScrapedLists ==
    {OneAmong(n, k, TitleA, TitleB) : n \in ListLengths, k \in 0..MaxListed}
CachedLists ==
    {JSONrecords([x \in 1..n |->
                     fallback(OneAmong(n, k, <<"a">>, <<"b">>)[x], 0)]) :
        n \in ListLengths, k \in 0..MaxListed}

\* init() at if (cached.data.length), after a scrape with a stale or
\* overridden cache
InitCurrent ==
    /\ now = 2 + HOUR /\ overrideCache \in BOOLEAN
    /\ watchlistFile \in {File("object", TRUE, TRUE, 2, records) :
                             records \in CachedLists}
    /\ rssFile = <<>> /\ unknownsFile = [generated |-> 0, data |-> <<>>]
    /\ pc = "current" /\ runs = 1
    /\ cached = watchlistFile /\ cacheFileExists = TRUE
    /\ scraped \in ScrapedLists /\ data = <<>>
    /\ i = 0 /\ items = <<>> /\ prevFirstItem = Null /\ pagesSeen = <<>>
    /\ stalled = FALSE
    /\ movieData = <<>> /\ batchStart = 0
    /\ inFlight = NoneSettled /\ batchResults = NoneSettled /\ batchDoneAt = 0
    /\ duplicates = <<>> /\ reRunDuplicates = <<>>
    /\ call = <<>> /\ ret = <<>>
    /\ lookups = 0 /\ requeries = 0 /\ cacheWrites = 0 /\ scrapeCalls = 1
    /\ loadedFrom = <<>> /\ rssWrites = 0
    /\ generatedFrom = <<>>

SpecCurrent == InitCurrent /\ [][EmptyCache \/ UseCache \/ UpdateCache]_vars

----------------------------------------------------------------------------
(* createUnknownsFile, on the records of a run that started without a cache *)

MaxData == 3        \* records in data

UnknownRecords == CacheRecords \cup {JSONrecord(fallback(TitleA, 1))}
DataLists == UNION {[1..n -> UnknownRecords] : n \in 0..MaxData}

\* init() at await createUnknownsFile(data)
InitUnknowns ==
    /\ now = 2 /\ overrideCache \in BOOLEAN
    /\ data \in DataLists
    /\ watchlistFile = createWatchlistFile(data, now)
    /\ rssFile = createRssFile(data)
    /\ unknownsFile = [generated |-> 0, data |-> <<>>]
    /\ pc = "unknowns" /\ runs = 1
    /\ cached = EmptyObject /\ cacheFileExists = FALSE
    /\ scraped = Titles(data)
    /\ i = 0 /\ items = <<>> /\ prevFirstItem = Null /\ pagesSeen = <<>>
    /\ stalled = FALSE
    /\ movieData = data /\ batchStart = (IF data = <<>> THEN 0 ELSE BatchSize)
    /\ inFlight = NoneSettled /\ batchResults = NoneSettled /\ batchDoneAt = 0
    /\ duplicates = <<>> /\ reRunDuplicates = <<>>
    /\ call = <<>> /\ ret = <<>>
    /\ lookups = Len(data) /\ requeries = 0 /\ cacheWrites = 1
    /\ scrapeCalls = 1
    /\ loadedFrom = <<>> /\ rssWrites = 1
    /\ generatedFrom = <<scraped>>

SpecUnknowns ==
    InitUnknowns /\ [][FindDuplicates \/ ReQuery \/ WriteUnknowns]_vars

----------------------------------------------------------------------------
(* One run, page by page and lookup by lookup *)

\* what a page request comes to in this run
RunPageResponses == {PageFail, Page(<<>>), Page(<<TitleA>>)}

\* await scrape() is entered: no cache, or a cache that is not fresh
BeginScrape ==
    /\ pc = "decide"
    /\ ~cacheFileExists \/ ~isCacheFresh(cached.generated, now, overrideCache)
    /\ i' = 0 /\ items' = <<>> /\ prevFirstItem' = Null
    /\ scrapeCalls' = scrapeCalls + 1
    /\ pc' = "scan"
    /\ UNCHANGED <<envVars, fileVars, runs, initVars, pagesSeen, stalled,
                   collectVars, unknownVars, callVars, lookups, requeries,
                   cacheWrites, generatedFrom, loadedFrom, rssWrites>>

\* a scan that starts over when a page fails
ScanPageRestartOnFailure ==
    /\ pc = "scan" /\ i <= LastPage
    /\ \E resp \in RunPageResponses :
         LET st == ScrapePage([i |-> i, items |-> items,
                               prevFirstItem |-> prevFirstItem], resp)
         IN  IF resp.ok
             THEN i' = st.i /\ items' = st.items
                  /\ prevFirstItem' = st.prevFirstItem
             ELSE i' = 0 /\ items' = <<>> /\ prevFirstItem' = Null
    /\ UNCHANGED <<envVars, fileVars, pc, runs, initVars, pagesSeen, stalled,
                   collectVars, unknownVars, callVars, countVars>>

\* one iteration of for (let i = 0; i <= 5; i++): the request is awaited
\* before the next one is made
ScanPage ==
    /\ pc = "scan" /\ i <= LastPage
    /\ \E resp \in RunPageResponses :
         LET st == ScrapePage([i |-> i, items |-> items,
                               prevFirstItem |-> prevFirstItem], resp)
         IN  /\ i' = st.i
             /\ items' = st.items
             /\ prevFirstItem' = st.prevFirstItem
    /\ UNCHANGED <<envVars, fileVars, pc, runs, initVars, pagesSeen, stalled,
                   collectVars, unknownVars, callVars, countVars>>

\* return await items, back in init()
EndScrape ==
    /\ pc = "scan" /\ i > LastPage
    /\ scraped' = ScrapeResult(items)
    /\ pc' = IF cacheFileExists THEN "current" ELSE "collect"
    /\ UNCHANGED <<envVars, fileVars, runs, cached, cacheFileExists, data,
                   scrapeVars, collectVars, unknownVars, callVars, countVars>>

\* a process start with no cache file or a structurally valid one
InitWholeRun ==
    /\ now \in {3, 2 + HOUR} /\ overrideCache \in BOOLEAN
    /\ watchlistFile \in {Absent} \cup CollectCaches
    /\ rssFile = <<>> /\ unknownsFile = [generated |-> 0, data |-> <<>>]
    /\ pc = "load" /\ runs = 1
    /\ Locals
    /\ generatedFrom = <<>>

NextWholeRun ==
    \/ Load \/ KeepFresh \/ BeginScrape \/ ScanPage \/ EndScrape
    \/ EmptyCache \/ UseCache \/ UpdateCache
    \/ IssueBatch \/ Answer \/ BatchDone \/ Pause \/ CollectReturn
    \/ Combine \/ WriteCache \/ WriteRss
    \/ FindDuplicates \/ ReQuery \/ WriteUnknowns

SpecWholeRun == InitWholeRun /\ [][NextWholeRun]_vars

\* every request settles and every timer fires: the run is never left
\* waiting while it can take a step
FairWholeRun == SpecWholeRun /\ WF_vars(NextWholeRun)

----------------------------------------------------------------------------
(* slugify, applied to a string and to its own result *)

MaxSlugLen == 3     \* characters in the string

\* a letter in both cases, the three separators, punctuation
SlugChars == {"a", "A", "_", "-", " ", "!"}
SlugInputs == UNION {[1..n -> SlugChars] : n \in 0..MaxSlugLen}

Normalize ==
    /\ pc = "slug"
    /\ ret' = <<slugify(call[1])>>
    /\ pc' = "slugged"
    /\ UNCHANGED <<envVars, fileVars, runs, initVars, scrapeVars, collectVars,
                   unknownVars, call, countVars>>

Renormalize ==
    /\ pc = "slugged"
    /\ ret' = Append(ret, slugify(ret[1]))
    /\ pc' = "reslugged"
    /\ UNCHANGED <<envVars, fileVars, runs, initVars, scrapeVars, collectVars,
                   unknownVars, call, countVars>>

InitSlug ==
    /\ now = 0 /\ overrideCache = FALSE
    /\ NoFiles
    /\ pc = "slug" /\ runs = 1
    /\ cached = EmptyObject /\ cacheFileExists = FALSE
    /\ scraped = <<>> /\ data = <<>>
    /\ i = 0 /\ items = <<>> /\ prevFirstItem = Null /\ pagesSeen = <<>>
    /\ stalled = FALSE
    /\ movieData = <<>> /\ batchStart = 0
    /\ inFlight = NoneSettled /\ batchResults = NoneSettled /\ batchDoneAt = 0
    /\ duplicates = <<>> /\ reRunDuplicates = <<>>
    /\ call \in {<<s>> : s \in SlugInputs} /\ ret = <<>>
    /\ lookups = 0 /\ requeries = 0 /\ cacheWrites = 0 /\ scrapeCalls = 0
    /\ loadedFrom = <<>> /\ rssWrites = 0
    /\ generatedFrom = <<>>

SpecSlug == InitSlug /\ [][Normalize \/ Renormalize]_vars

----------------------------------------------------------------------------
(* Claims *)

Range(f) == {f[k] : k \in DOMAIN f}

\* The run read a structurally valid, non-empty cache that is less than one
\* hour old, and the override flag is off
FreshStart ==
    /\ pc \notin {"load", "crashed"}
    /\ cacheFileExists /\ Len(cached.data) > 0
    /\ ~overrideCache
    /\ now - cached.generated < HOUR

\* C1 as stated: in a run that starts with a valid, non-empty cache less
\* than one hour old and the override flag off, no call at all is made to
\* the metadata provider and the cache file is not written.
FreshRunNoCalls ==
    FreshStart => lookups + requeries = 0 /\ cacheWrites = 0

\* C1 as amended: in such a run collectMovieData makes no provider call and
\* the cache file is not written; the only provider calls are the rank 1
\* lookups of createUnknownsFile, one for every cached record whose
\* slugified title repeats that of an earlier cached record.
FreshRunCost ==
    FreshStart =>
        /\ lookups = 0 /\ cacheWrites = 0 /\ watchlistFile = cached
        /\ requeries = Len(reRunDuplicates)
        /\ pc = "done" => requeries = Cardinality(DuplicateIndexes(cached.data))

FreshRunRequeried == FreshStart /\ pc = "done" /\ requeries > 0

\* combineWatchlists has returned: data is the merge of movieData, the
\* value of collectMovieData, with cached.data
Merged == pc = "write" /\ cacheFileExists

SameId(movie) == {c \in Range(cached.data) : c.id = movie.id}

\* C2: every merged record is the freshly produced record, with the
\* dateAdded of a cached record of the same id when there is one and with
\* its own dateAdded when there is none.
MergeKeepsCachedDate ==
    Merged =>
        /\ Len(data) = Len(movieData)
        /\ \A k \in 1..Len(movieData) :
              /\ data[k] = [movieData[k] EXCEPT !.dateAdded = data[k].dateAdded]
              /\ IF SameId(movieData[k]) # {}
                 THEN data[k].dateAdded \in
                          {c.dateAdded : c \in SameId(movieData[k])}
                 ELSE data[k].dateAdded = movieData[k].dateAdded

MergeRestoredADate ==
    /\ Merged
    /\ \E k \in 1..Len(movieData) :
          /\ SameId(movieData[k]) # {}
          /\ data[k].dateAdded # movieData[k].dateAdded
    /\ \E k \in 1..Len(movieData) : SameId(movieData[k]) = {}

\* C3: a freshly produced record with id 0 keeps its own dateAdded through
\* the merge, whatever records with id 0 the cache holds.  Stated for the
\* records that no reading takes for a cached one: the unresolved records
\* whose slugified title is the title of no cached record.
UnresolvedKeepOwnDate ==
    Merged =>
        \A k \in 1..Len(movieData) :
            (/\ movieData[k].id = 0
             /\ ~InCachedMap(cached.data, slugify(movieData[k].title)))
            => data[k].dateAdded = movieData[k].dateAdded

\* C4: the entry kept for a duplicate is the rank 1 resolution of its title
\* when the provider has a candidate at rank 1 whose id differs from the
\* duplicate's, and the duplicate itself, unchanged, when the rank 1 lookup
\* yields the same id, finds no candidate at rank 1, or fails.
ReRunAsDocumented ==
    (pc = "requery" /\ call # <<>>) =>
        LET n    == Len(reRunDuplicates)
            dup  == duplicates[n]
            resp == call[1].response
            hasRankOne == resp.kind = "results" /\ Len(resp.results) >= 2
        IN  IF hasRankOne /\ resp.results[2].id # dup.id
            THEN reRunDuplicates[n].id = resp.results[2].id
            ELSE reRunDuplicates[n] = dup

\* C5: once a page starts with the first entry kept from the previous page,
\* neither that page nor any later page adds an entry to the result of
\* scrape (the result is ScrapeResult(items) when the loop ends).
StallEndsScan ==
    [][(stalled \/ stalled') => ScrapeResult(items') = ScrapeResult(items)]_vars

\* C6: the result of scrape is the result of the same scan with every
\* failed page answered by a page without entries.
AsEmptyPages(pages) ==
    [k \in 1..Len(pages) |-> IF pages[k].ok THEN pages[k] ELSE Page(<<>>)]
FailedPageIsEmptyPage ==
    pc = "scraped" => scraped = scrape(AsEmptyPages(pagesSeen))

\* C7: fetchMovieData returns a record for every response, and when the
\* call fails, the body does not parse, there are no candidates or there is
\* none at the requested rank, the record is the fallback: id 0, the input
\* title, no release date, year or media type, and the search URL of the
\* raw title.
ResolverFallsBack ==
    pc = "returned" =>
        /\ Len(ret) = 1
        /\ LET c == call[1]
               r == ret[1]
               noCandidate == \/ c.response.kind # "results"
                              \/ Len(c.response.results) <= c.resultIndex
           IN  noCandidate =>
                 /\ r.id = 0 /\ r.title = c.movie
                 /\ r.releaseDate = Null /\ r.releaseYear = Null
                 /\ r.mediaType = Null
                 /\ r.googleSearchUrl = SearchUrl \o encodeURI(c.movie)
                 /\ Len(r.googleSearchUrl) > 0

ResolverFellBackAtRankOne ==
    /\ pc = "returned"
    /\ call[1].resultIndex = 1
    /\ call[1].response.kind = "results" /\ Len(call[1].response.results) = 1
    /\ ret[1].id = 0

\* C8: a cache file that is not JSON, is JSON but not an object, or is an
\* object without generated or data is treated as absent: the run does not
\* fail.
MalformedCacheIsAbsent ==
    watchlistFile \in MalformedFiles => pc # "crashed"

\* C9: a run does not change the dateAdded of a resolved record that stays
\* in the cache.  Stated for the runs that leave no doubt about which record
\* is which: when a step leaves the cache file with the same number of
\* records and the same id and title at every position, every record with
\* an id other than 0 has the dateAdded it had.
SameRecords(before, after) ==
    /\ Len(after) = Len(before)
    /\ \A k \in 1..Len(before) :
          after[k].id = before[k].id /\ after[k].title = before[k].title
DateAddedKept ==
    [][SameRecords(watchlistFile.data, watchlistFile'.data) =>
          \A k \in 1..Len(watchlistFile.data) :
              watchlistFile.data[k].id # 0 =>
                  watchlistFile'.data[k].dateAdded
                      = watchlistFile.data[k].dateAdded]_vars

\* C10: a run with the override flag off that finds a cache older than one
\* hour and scrapes the list the cache was generated from makes no call to
\* the metadata provider.
SteadyStateIsFree ==
    (/\ cacheFileExists /\ ~overrideCache /\ scrapeCalls = 1
     /\ pc \notin {"load", "decide"}
     /\ loadedFrom = <<scraped>>)
    => lookups + requeries = 0

\* createRssFile has run on data
FeedWritten == pc \in {"unknowns", "requery", "done"}

\* a number that is neither null nor NaN
IsFinite(y) == Len(y) = 2 /\ y[1] = "num"

\* C11: the feed has one entry per record, in order; its title is the
\* record's title followed by " (releaseYear)" when releaseYear is a finite
\* number, and the bare title when releaseYear is null or NaN.
FeedEntryTitle ==
    FeedWritten =>
        /\ Len(rssFile) = Len(data)
        /\ \A k \in 1..Len(data) :
              rssFile[k].title =
                  IF IsFinite(data[k].releaseYear)
                  THEN data[k].title \o <<" ", "(">>
                           \o Digits(data[k].releaseYear[2]) \o <<")">>
                  ELSE data[k].title

FeedHasYearAndNone ==
    /\ FeedWritten
    /\ \E k \in 1..Len(data) :
          data[k].releaseYear = NaN /\ rssFile[k].title = data[k].title
    /\ \E k \in 1..Len(data) :
          IsFinite(data[k].releaseYear) /\ Len(rssFile[k].title) > Len(data[k].title)

\* C12: slugify returns a string for every string, the empty string and
\* strings of punctuation included: lower-case word characters joined by
\* single hyphens, without a hyphen at either end; slugify of that result
\* is the result itself.
SlugifyIdempotent ==
    /\ pc \in {"slugged", "reslugged"} =>
          LET r == ret[1]
          IN  /\ \A k \in 1..Len(r) : r[k] \in {"a", "-"}
              /\ \A k \in 1..(Len(r) - 1) : ~(r[k] = "-" /\ r[k + 1] = "-")
              /\ r # <<>> => r[1] # "-" /\ r[Len(r)] # "-"
    /\ pc = "reslugged" => ret[2] = ret[1]

SlugifiedTwice ==
    /\ pc = "reslugged"
    /\ call[1] = <<"A", "_", "!">>
    /\ ret = <<<<"a">>, <<"a">>>>

\* the run is past the decision to scrape, or has ended before it
Decided == pc \notin {"load", "decide"}

\* C13: the scraper is invoked at most once in a run, and it is invoked
\* exactly when the run found no structurally valid cache (no file, or a
\* file that is not an object with generated and data) or found one that
\* is not fresh: the override flag is on, or generated is one hour old or
\* older.
ScrapeDecision ==
    /\ scrapeCalls <= 1
    /\ Decided =>
          (scrapeCalls = 1 <=>
              \/ ~cacheFileExists
              \/ overrideCache
              \/ ~(now - cached.generated < HOUR))

\* init calls collectMovieData: there is no cache, or the cache has records
\* and the scrape is not empty and not what the cache holds
Regenerates ==
    \/ ~cacheFileExists
    \/ Len(cached.data) > 0 /\ MustUpdate

\* every batch of collectMovieData has settled and its pause has passed
AllBatchesDone ==
    /\ batchStart >= Len(scraped)
    /\ DOMAIN inFlight = {}
    /\ pc \notin {"collect", "await", "pause"}

\* C14: the cache file changes only in a step that is the one cache write
\* of a run that regenerates, taken when every batch of the run has
\* completed; the file then holds the records of the run with generated set
\* to the time of the write.  In a run that does not regenerate the file is
\* never touched.
CacheWrittenOnceAtEnd ==
    [][(watchlistFile' # watchlistFile \/ cacheWrites' # cacheWrites) =>
          /\ cacheWrites = 0 /\ cacheWrites' = 1
          /\ Regenerates
          /\ AllBatchesDone
          /\ watchlistFile' = File("object", TRUE, TRUE, now, JSONrecords(data))]_vars

CacheWrittenAfterTwoBatches ==
    /\ cacheWrites = 1 /\ cacheFileExists
    /\ Len(scraped) > BatchSize /\ Len(data) = Len(scraped)
    /\ watchlistFile.generated >= 2 + HOUR + BatchWait + BatchWait

Min(a, b) == IF a < b THEN a ELSE b

\* the number of scraped titles whose promise collectMovieData has created
Issued ==
    IF pc \in {"await", "pause"} THEN Min(Len(scraped), batchStart + BatchSize)
    ELSE Min(Len(scraped), batchStart)

\* the cached records whose title has the SlugKey of the k-th scraped title
Known(k) ==
    {c \in Range(cached.data) : slugify(c.title) = slugify(scraped[k])}

\* C15: with the override flag off, collectMovieData sends no lookup for a
\* scraped title whose SlugKey is that of a cached record's title, and its
\* record for that title is one of those cached records, unchanged; the
\* lookups it sends are those of the other titles.  With the override flag
\* on it sends a lookup for every scraped title and every record it
\* returns was made after the cache was written.
ReuseUnlessOverride ==
    IF overrideCache
    THEN /\ lookups = Issued
         /\ \A k \in 1..Len(movieData) :
               movieData[k].dateAdded > cached.generated
    ELSE /\ lookups = Cardinality({k \in 1..Issued : Known(k) = {}})
         /\ \A k \in DOMAIN inFlight : Known(batchStart + k) = {}
         /\ \A k \in 1..Len(movieData) :
               Known(k) # {} => movieData[k] \in Known(k)

ReusedAndLookedUp ==
    /\ ~overrideCache /\ pc = "write"
    /\ Len(movieData) > BatchSize
    /\ Known(1) = {} /\ Known(BatchSize + 1) # {}
    /\ movieData[BatchSize + 1] \in Range(cached.data)
    /\ lookups = Len(scraped) - 1

\* a step that sends at least one lookup to the provider
LookupIssued == \E k \in DOMAIN inFlight' : k \notin DOMAIN inFlight

\* C16: never more than 5 lookups are in flight, and lookups are sent only
\* when none is in flight, the records of every earlier title have been
\* pushed, and, after the first batch, 500 ms have passed since the
\* previous batch settled.
BatchedResolution ==
    [][/\ Cardinality(DOMAIN inFlight') <= 5
       /\ LookupIssued =>
             /\ DOMAIN inFlight = {}
             /\ Len(movieData) = batchStart
             /\ batchStart > 0 => now >= batchDoneAt + 500]_vars

SecondBatchInFlight ==
    /\ pc = "await" /\ batchStart = BatchSize
    /\ Cardinality(DOMAIN inFlight) = 1
    /\ lookups = BatchSize + 1
    /\ Len(movieData) = BatchSize

\* record r is what collectMovieData makes of title t: the fallback of t,
\* the provider's candidate for the query t, or a cached record with the
\* SlugKey of t
RecordOf(r, t) ==
    \/ r.id = 0 /\ r.title = t /\ r.googleSearchUrl = SearchUrl \o encodeURI(t)
    \/ r.id = TitleId(t) /\ r.title = toLowerCase(t)
    \/ r \in Range(cached.data) /\ slugify(r.title) = slugify(t)

\* C17: collectMovieData returns one record per title, in the order of the
\* titles, whatever lookups fail and in whatever order the answers arrive:
\* after each batch movieData holds the records of the titles up to that
\* batch, and the value returned has the length of scraped with the record
\* of the k-th title at place k.
OneRecordPerTitle ==
    /\ Len(movieData) = (IF pc = "pause" THEN Issued ELSE Min(Len(scraped), batchStart))
    /\ \A k \in 1..Len(movieData) : RecordOf(movieData[k], scraped[k])
    /\ pc \in {"combine", "write"} =>
          Len(data) = Len(scraped) /\ \A k \in 1..Len(data) : data[k].id = movieData[k].id

FailuresAbsorbedInOrder ==
    /\ pc = "write" /\ Len(scraped) > BatchSize
    /\ movieData[1].id = 0 /\ movieData[2].id = TitleId(scraped[2])
    /\ movieData[3].id = 0 /\ movieData[4].id = TitleId(scraped[4])
    /\ movieData[2].dateAdded > movieData[4].dateAdded
    /\ movieData[BatchSize + 1].id = 0

\* the SlugKeys of the first 10 cached titles are, place by place, the
\* SlugKeys of the first 10 scraped titles
SameFirstTen ==
    LET n == Min(10, Len(cached.data))
        m == Min(10, Len(scraped))
    IN  /\ n = m
        /\ \A k \in 1..n : slugify(cached.data[k].title) = slugify(scraped[k])

\* C18: in a run that loaded a structurally valid cache, the cache is judged
\* current exactly when the override flag is off and the SlugKeys of the
\* first 10 cached titles equal, place by place, those of the first 10
\* scraped titles; collectMovieData is entered exactly when the cache and
\* the scrape are not empty and the cache is judged not current.
CurrencyCheck ==
    cacheFileExists =>
        /\ isCacheCurrent(cached.data, scraped, overrideCache)
              <=> (~overrideCache /\ SameFirstTen)
        /\ pc \in {"rss", "collect"} =>
              (pc = "collect" <=>
                  /\ Len(cached.data) > 0 /\ Len(scraped) > 0
                  /\ ~(~overrideCache /\ SameFirstTen))

CurrentDespiteEleventh ==
    /\ pc = "rss" /\ ~overrideCache
    /\ Len(cached.data) = 11 /\ Len(scraped) = 11
    /\ slugify(cached.data[11].title) # slugify(scraped[11])
    /\ data = cached.data

\* the places of data whose SlugKey occurs at an earlier place
LaterOccurrences ==
    {k \in 1..Len(data) :
        Cardinality({j \in 1..k :
                        slugify(data[j].title) = slugify(data[k].title)}) > 1}

\* the records of data at the places in S, in the order of data
RECURSIVE Among(_, _)
Among(S, k) ==
    IF k > Len(data) THEN <<>>
    ELSE (IF k \in S THEN <<data[k]>> ELSE <<>>) \o Among(S, k + 1)

\* C19: the duplicates are the records at every place but the first of
\* each SlugKey, in the order of data; the unknowns file holds the records
\* with mediaType person, then the records with id 0, then one entry per
\* duplicate, the duplicate itself or its rank 1 resolution, each group in
\* the order of data, a record once for every group it belongs to.
UnknownsComposition ==
    /\ pc \in {"requery", "done"} => duplicates = Among(LaterOccurrences, 1)
    /\ pc = "done" =>
          LET people    == Among({k \in 1..Len(data) :
                                     data[k].mediaType = <<"person">>}, 1)
              unmatched == Among({k \in 1..Len(data) : data[k].id = 0}, 1)
              n         == Len(people) + Len(unmatched)
              written   == unknownsFile.data
          IN  /\ Len(written) = n + Len(duplicates)
              /\ SubSeq(written, 1, n) = people \o unmatched
              /\ \A k \in 1..Len(duplicates) :
                    \/ written[n + k] = duplicates[k]
                    \/ written[n + k].id # duplicates[k].id

UnknownsOfThreeAlike ==
    /\ pc = "done" /\ Len(data) = 3 /\ Len(duplicates) = 2
    /\ data[1].mediaType = <<"person">>
    /\ data[2].id = 0 /\ duplicates[1] = data[2]
    /\ Len(unknownsFile.data) = 4
    /\ unknownsFile.data[2] = data[2] /\ unknownsFile.data[3] = data[2]
    /\ unknownsFile.data[4].id = 2

\* C20: with no cache file or a structurally valid one, whatever pages and
\* lookups fail or come back empty, the run reaches its end; the scraper
\* has then asked for at most 6 pages and the feed has been written
\* exactly once.
RunTerminates ==
    /\ <>(pc = "done")
    /\ [](i <= LastPage + 1 /\ rssWrites <= 1 /\ (pc = "done" => rssWrites = 1))

RunEndedDespiteFailures ==
    /\ pc = "done" /\ rssWrites = 1
    /\ scrapeCalls = 1 /\ i = LastPage + 1 /\ Len(items) <= LastPage /\ Len(scraped) > 1
    /\ \E k \in 1..Len(movieData) :
          movieData[k].id = 0 /\ movieData[k].dateAdded > cached.generated
    /\ requeries > 0

IsEmptyCache(file) ==
    /\ file.kind = "object" /\ file.hasGenerated /\ file.hasData
    /\ file.data = <<>>
LoadedEmptyCache == cacheFileExists /\ IsEmptyCache(cached)
EmptyCacheAbsorbing ==
    /\ [][IsEmptyCache(watchlistFile) => watchlistFile' = watchlistFile]_vars
    /\ [](LoadedEmptyCache =>
            /\ lookups = 0 /\ requeries = 0 /\ cacheWrites = 0
            /\ watchlistFile = cached
            /\ rssFile = <<>> /\ rssWrites <= 1
            /\ pc = "done" => rssWrites = 1)

EmptyCacheKeptDespiteScrape ==
    /\ runs = MaxRuns /\ pc = "done" /\ LoadedEmptyCache
    /\ overrideCache /\ scrapeCalls = 1 /\ Len(scraped) > 0
    /\ rssWrites = 1 /\ rssFile = <<>>
    /\ watchlistFile = cached

====
